---- MODULE Spec2Model ----
(***************************************************************************)
(* Model of the GDELT / stock pipeline: date chunking, the concurrent      *)
(* fetch orchestrator of the two event fetchers, the schema normaliser,    *)
(* the daily aggregator, the merger and the differencer.                   *)
(*                                                                         *)
(* Dates are day ordinals of the year 2024 (0 is 2024-01-01); strftime is  *)
(* modelled by the calendar computation it performs.  A table (DataFrame)  *)
(* is a record [cols, rows]: the set of column names and the sequence of   *)
(* rows.  Numbers of the value columns are exact rationals <<num, den>>;   *)
(* the missing value (None / NaN) is <<0, 0>>.                             *)
(***************************************************************************)
EXTENDS Integers, Sequences, FiniteSets, TLC

\* ------------------------------------------------------------------ bounds
\* The requested range lies within the MaxSpan + 1 days that begin on
\* 2024-01-31 (day ordinal 30), so that ranges cross a month boundary.
MaxSpan == 2
\* fetch() is called at most MaxRuns times on one fetcher.
MaxRuns == 2
\* config.gdelt.max_workers: its default; the model also runs a pool of one.
MaxWorkers == 4

VARIABLES
    use_api,              \* config.gdelt.use_api
    parallel_processing,  \* config.parallel_processing
    max_workers,          \* config.gdelt.max_workers
    start_date,           \* config.gdelt.start_date (day ordinal)
    end_date,             \* config.gdelt.end_date (day ordinal)
    files,                \* paths that exist in config.gdelt.output_folder
    pc,                   \* position of the caller of fetch()
    run,                  \* number of fetch() calls begun
    jobs,                 \* date_pairs / date_ranges of the current fetch()
    fut,                  \* per job: position of its _fetch_single_* call
    outcome,              \* per job: what the upstream call did
    ret,                  \* per job: the table its call returned
    calls,                \* per job: number of upstream calls made
    all_data,             \* the collector's list of tables
    combined,             \* the table fetch() returned
    raised,               \* fetch() let an exception escape
    written,              \* <<job, path>> of every to_csv of the current fetch()
    persisted_at_start,   \* every chunk of the range had its file when fetch() began
    processed_gdelt,      \* process_gdelt_data(combined)
    object_mean_raises,   \* the installed pandas raises on the mean of an object column
    interval,             \* config.stock.interval
    stock_data,           \* the table stock_fetcher.fetch() returned
    processed_stock,      \* process_stock_data(stock_data)
    merged_data,          \* merge_datasets(processed_gdelt, processed_stock)
    final_data,           \* calculate_differences(merged_data)
    results,              \* the dict analyze() returned
    saved,                \* the files run_complete_analysis wrote
    identical_x_raises,   \* the installed scipy rejects a regression on one x value
    restart,              \* whether a fetch() was interrupted, and the files it left
    gdelt_imported,       \* gdelt_direct.py: `import gdelt` worked (gdelt is not None)
    GDELTDOC_AVAILABLE    \* gdelt_api.py: `from gdeltdoc import ...` worked

importVars == <<gdelt_imported, GDELTDOC_AVAILABLE>>

fetchVars == <<importVars, use_api, parallel_processing, max_workers, start_date, end_date,
               files, pc, run, jobs, fut, outcome, ret, calls, all_data,
               combined, raised, written, persisted_at_start, processed_gdelt,
               object_mean_raises>>

analysisVars == <<results, saved, identical_x_raises>>

stockVars == <<interval, stock_data, processed_stock, merged_data, final_data,
               analysisVars>>

\* ------------------------------------------------------------------ dates
\* Month lengths of 2024.
MonthLen == <<31, 29, 31, 30, 31, 30, 31, 31, 30, 31, 30, 31>>

RECURSIVE MonthDay(_, _)
\* <<month, day of month>> of the day ordinal n, counted from month m.
MonthDay(n, m) ==
    IF n < MonthLen[m] THEN <<m, n + 1>> ELSE MonthDay(n - MonthLen[m], m + 1)

\* strftime("%Y%m%d"): the digits YYYYMMDD, as the number they spell.
StrftimeCompact(d) ==
    LET md == MonthDay(d, 1) IN 2024 * 10000 + md[1] * 100 + md[2]

\* strftime('%Y-%m-%d'): the three fields of the ISO date string.
StrftimeIso(d) ==
    LET md == MonthDay(d, 1) IN <<2024, md[1], md[2]>>

\* Order of two ISO date strings (string comparison is field by field).
IsoLess(a, b) ==
    \/ a[1] < b[1]
    \/ a[1] = b[1] /\ a[2] < b[2]
    \/ a[1] = b[1] /\ a[2] = b[2] /\ a[3] < b[3]

Dates == 30 .. (30 + MaxSpan)

\* ----------------------------------------------------------------- tables
EmptyFrame == [cols |-> {}, rows |-> <<>>]

IsEmpty(df) == df.rows = <<>>

RECURSIVE ConcatRows(_)
ConcatRows(frames) ==
    IF frames = <<>> THEN <<>>
    ELSE Head(frames).rows \o ConcatRows(Tail(frames))

\* pd.concat(all_data, ignore_index=True)
Concat(frames) ==
    [cols |-> UNION {frames[i].cols : i \in DOMAIN frames},
     rows |-> ConcatRows(frames)]

RowSet(df) == {df.rows[i] : i \in DOMAIN df.rows}

\* ------------------------------------------------------ numbers and values
RECURSIVE Gcd(_, _)
Gcd(a, b) == IF b = 0 THEN a ELSE Gcd(b, a % b)

Abs(n) == IF n < 0 THEN -n ELSE n

\* The rational n / d (d > 0) in lowest terms.
Rat(n, d) == LET g == Gcd(Abs(n), d) IN <<n \div g, d \div g>>

RatAdd(x, y) == Rat(x[1] * y[2] + y[1] * x[2], x[2] * y[2])

RatSub(x, y) == Rat(x[1] * y[2] - y[1] * x[2], x[2] * y[2])

NaN == <<0, 0>>

IsNaN(v) == v = NaN

\* Subtraction of two floats: NaN if either is NaN.
Minus(x, y) == IF IsNaN(x) \/ IsNaN(y) THEN NaN ELSE RatSub(x, y)

\* ------------------------------------------------------------ the chunkers
\* Mutant of DirectOutputFilename: the name is built from the requested range
\* instead of the chunk's own dates.
DirectOutputFilenameOfRange(cur, nxt) ==
    <<"gdelt_direct", StrftimeCompact(start_date), StrftimeCompact(end_date)>>

\* f'{output_folder}/gdelt_direct_{current:%Y%m%d}_{next:%Y%m%d}.csv'
DirectOutputFilename(cur, nxt) ==
    <<"gdelt_direct", StrftimeCompact(cur), StrftimeCompact(nxt)>>

\* f'{output_folder}/gdelt_api_{current:%Y-%m-%d}.csv'
ApiOutputFilename(cur) == <<"gdelt_api", StrftimeIso(cur)>>

RECURSIVE GenerateDatePairs(_, _, _)
\* GdeltDirectFetcher._generate_date_pairs, from current_date = cur, with the
\* files of `disk` existing.
GenerateDatePairs(cur, end, disk) ==
    IF ~(cur < end) THEN <<>>
    ELSE LET plus1 == cur + 1
             nxt == IF plus1 > end THEN end ELSE plus1
             output_filename == DirectOutputFilename(cur, nxt)
             pair == [cur |-> cur, next |-> nxt, path |-> output_filename]
         IN  (IF output_filename \notin disk THEN <<pair>> ELSE <<>>)
                 \o GenerateDatePairs(nxt, end, disk)

RECURSIVE GenerateDateRanges(_, _)
\* GdeltApiFetcher._generate_date_ranges, from current_date = cur.
GenerateDateRanges(cur, end) ==
    IF ~(cur <= end) THEN <<>>
    ELSE <<[cur |-> cur, next |-> cur + 1]>>
             \o GenerateDateRanges(cur + 1, end)

\* Mutant of Chunker: the files on disk are not looked at.
ChunkerIgnoresDisk(api, s, e, disk) ==
    IF api THEN GenerateDateRanges(s, e) ELSE GenerateDatePairs(s, e, {})

\* The jobs fetch() hands to the orchestrator.
Chunker(api, s, e, disk) ==
    IF api THEN GenerateDateRanges(s, e) ELSE GenerateDatePairs(s, e, disk)

\* The destination path of a job: part of the job tuple in the direct fetcher,
\* computed by _fetch_single_date in the API fetcher.
JobPath(api, job) == IF api THEN ApiOutputFilename(job.cur) ELSE job.path

\* ------------------------------------------------------------ the upstream
\* What one upstream call can do: raise, give nothing usable, give rows.
Outcomes == {"error", "empty", "rows"}

\* A timestamp is <<YYYYMMDD, HHMMSS>>, the two halves of its digits.
Noon(d) == <<StrftimeCompact(d), 120000>>

\* A V2Tone string "0,1,v,...": the sequence of its comma-separated parts.
ToneString(v) == <<Rat(0, 1), Rat(1, 1), Rat(v, 1), Rat(7, 1)>>

\* Tone of the record that a search from `cur` finds on day d.
ToneOn(cur, d) == 3 * (cur - 30) + (d - cur) + 1

GkgRow(cur, d, k, themes) ==
    [GKGRECORDID |-> <<cur, k>>, DATE |-> Noon(d),
     V2Tone |-> ToneString(ToneOn(cur, d)), Themes |-> themes]

DirectCols == {"GKGRECORDID", "DATE", "V2Tone", "Themes"}

\* pd.read_csv(StringIO(results)) of gd2.Search([cur, next]): the records of
\* both days of the pair, some about the keyword and some not.
DirectSearch(job, oc) ==
    [cols |-> DirectCols,
     rows |-> IF oc = "rows"
              THEN <<GkgRow(job.cur, job.cur, 1, {"trump", "rally"}),
                     GkgRow(job.cur, job.cur, 2, {"weather"}),
                     GkgRow(job.cur, job.next, 3, {"trump"})>>
              ELSE <<GkgRow(job.cur, job.cur, 2, {"weather"})>>]

ApiCols == {"url", "seendate"}

\* gd.article_search(f): the articles seen on the day of the range.
ArticleSearch(job, oc) ==
    [cols |-> ApiCols,
     rows |-> IF oc = "rows"
              THEN <<[url |-> <<job.cur, 1>>, seendate |-> Noon(job.cur)],
                     [url |-> <<job.cur, 2>>, seendate |-> Noon(job.cur)]>>
              ELSE <<>>]

\* config.gdelt.keyword, case-folded.
Keyword == "trump"

\* SelectSeq without a lambda: the rows of `rows` whose text holds `keyword`.
RECURSIVE KeepMatching(_, _)
KeepMatching(rows, keyword) ==
    IF rows = <<>> THEN <<>>
    ELSE (IF keyword \in Head(rows).Themes THEN <<Head(rows)>> ELSE <<>>)
             \o KeepMatching(Tail(rows), keyword)

\* BaseGdeltFetcher.filter_by_keyword
FilterByKeyword(df, keyword) ==
    IF IsEmpty(df) THEN df
    ELSE [cols |-> df.cols, rows |-> KeepMatching(df.rows, keyword)]

\* BaseGdeltFetcher.validate_data: a table with rows and a 'DATE' column.
BaseValidateData(data) == ~IsEmpty(data) /\ "DATE" \in data.cols

\* validate_data of the fetcher in use: GdeltApiFetcher asks for a 'date'
\* column on top of the base check, GdeltDirectFetcher for 'DATE' again.
ValidateData(api, data) ==
    /\ BaseValidateData(data)
    /\ IF api THEN "date" \in data.cols ELSE "DATE" \in data.cols

\* ---------------------------------------------------------- the normaliser
\* A text that float() cannot parse.
Unparsable == <<1, 0>>

\* A tone cell that is missing (NaN, not a str).
MissingTone == <<>>

\* An unparsable timestamp.
JunkTimestamp == <<0, 0>>

\* which: int = 2
ToneIndex == 2

\* DataProcessor._extract_tone_value; values[which] is the (which + 1)-th part.
ExtractToneValue(tone_str, which) ==
    IF tone_str = MissingTone THEN NaN
    ELSE IF Len(tone_str) > which
         THEN (IF tone_str[which + 1] = Unparsable THEN NaN
               ELSE tone_str[which + 1])
         ELSE NaN

\* pd.to_datetime(...).dt.strftime('%Y-%m-%d') of one timestamp: the date
\* fields of its first eight digits; the time of day is dropped.
ParseTimestamp(ts) ==
    LET ymd == ts[1] IN <<ymd \div 10000, (ymd \div 100) % 100, ymd % 100>>

\* to_datetime raises on a timestamp whose month or day is out of range.
CanParse(ts) ==
    LET d == ParseTimestamp(ts)
    IN  d[2] \in 1 .. 12 /\ d[3] \in 1 .. MonthLen[d[2]]

\* config.analysis.sentiment_column
SentimentColumn == "V2Tone"

Neutral == Rat(1, 1)

\* The date of the synthetic row: '2025-01-01'.
FallbackDate == <<2025, 1, 1>>

\* Mutant of MarkerColumn: the 'DATE' test comes before the 'seendate' test.
MarkerColumnDateFirst(df) ==
    IF "DATE" \in df.cols THEN "DATE"
    ELSE IF "seendate" \in df.cols THEN "seendate"
    ELSE IF "date" \in df.cols THEN "date"
    ELSE ""

\* The marker column process_gdelt_data dispatches on, "" when there is none.
MarkerColumn(df) ==
    IF "seendate" \in df.cols THEN "seendate"
    ELSE IF "DATE" \in df.cols THEN "DATE"
    ELSE IF "date" \in df.cols THEN "date"
    ELSE ""

\* The timestamp cell of a row under the marker column.
MarkerCell(df, row) ==
    IF MarkerColumn(df) = "seendate" THEN row.seendate
    ELSE IF MarkerColumn(df) = "DATE" THEN row.DATE
    ELSE row.date

\* Mutant of GdeltDate: the fallback dates each row by its own position.
GdeltDateByRow(df, row) ==
    IF MarkerColumn(df) = "" THEN <<2025, 1, row.url[2]>>
    ELSE ParseTimestamp(MarkerCell(df, row))

\* df['Date'] of one row.
GdeltDate(df, row) ==
    IF MarkerColumn(df) = "" THEN FallbackDate
    ELSE ParseTimestamp(MarkerCell(df, row))

\* The tone is extracted only in the 'DATE' branch with a tone column.
ExtractsTone(df) == MarkerColumn(df) = "DATE" /\ SentimentColumn \in df.cols

\* df['V2ToneOut'] of one row.
GdeltTone(df, row) ==
    IF ExtractsTone(df) THEN ExtractToneValue(row.V2Tone, ToneIndex)
    ELSE Neutral

\* The rows of df with the two derived columns only.
Canonical(df) ==
    [i \in DOMAIN df.rows |->
        [Date |-> GdeltDate(df, df.rows[i]),
         V2ToneOut |-> GdeltTone(df, df.rows[i])]]

RECURSIVE SumOn(_, _, _)
\* Sum of the values present on date d, added in row order to acc.
SumOn(rows, d, acc) ==
    IF rows = <<>> THEN acc
    ELSE LET r == Head(rows)
         IN  SumOn(Tail(rows), d,
                   IF r.Date = d /\ ~IsNaN(r.V2ToneOut)
                   THEN RatAdd(acc, r.V2ToneOut) ELSE acc)

CountOn(rows, d) ==
    Cardinality({i \in DOMAIN rows : rows[i].Date = d /\ ~IsNaN(rows[i].V2ToneOut)})

\* Mutant of MeanOn: first() instead of mean().
FirstOn(rows, d) ==
    rows[CHOOSE i \in DOMAIN rows :
            /\ rows[i].Date = d
            /\ \A j \in DOMAIN rows : rows[j].Date = d => i <= j].V2ToneOut

\* mean() of one group: missing values are skipped, NaN when all are missing.
MeanOn(rows, d) ==
    LET c == CountOn(rows, d)
        s == SumOn(rows, d, Rat(0, 1))
    IN  IF c = 0 THEN NaN ELSE Rat(s[1], s[2] * c)

RECURSIVE SortDates(_)
\* The group keys in ascending order (groupby sorts its keys).
SortDates(S) ==
    IF S = {} THEN <<>>
    ELSE LET m == CHOOSE x \in S : \A y \in S : x = y \/ IsoLess(x, y)
         IN  <<m>> \o SortDates(S \ {m})

\* df.groupby('Date')['V2ToneOut'].mean().reset_index()
GroupByMean(rows) ==
    LET keys == SortDates({rows[i].Date : i \in DOMAIN rows})
    IN  [cols |-> {"Date", "V2ToneOut"},
         rows |-> [k \in DOMAIN keys |->
                      [Date |-> keys[k], V2ToneOut |-> MeanOn(rows, keys[k])]]]

\* to_datetime raises: a timestamp of the marker column does not parse.
TimestampRaises(df) ==
    /\ MarkerColumn(df) # ""
    /\ \E i \in DOMAIN df.rows : ~CanParse(MarkerCell(df, df.rows[i]))

\* mean() raises: every extracted tone is None, which makes V2ToneOut an
\* object column, and the installed pandas rejects the mean of one.
MeanRaises(df) ==
    /\ ExtractsTone(df)
    /\ \A i \in DOMAIN df.rows : IsNaN(GdeltTone(df, df.rows[i]))
    /\ object_mean_raises

\* The try block of process_gdelt_data raises.
GdeltRaises(df) == TimestampRaises(df) \/ MeanRaises(df)

\* The caller's table after process_gdelt_data: the two derived columns are
\* assigned to it in place, unless it is empty or to_datetime raised.
GdeltInputAfter(df) ==
    IF IsEmpty(df) \/ TimestampRaises(df) THEN df
    ELSE [cols |-> df.cols \cup {"Date", "V2ToneOut"},
          rows |-> [i \in DOMAIN df.rows |->
                       [Date |-> GdeltDate(df, df.rows[i]),
                        V2ToneOut |-> GdeltTone(df, df.rows[i])] @@ df.rows[i]]]

\* DataProcessor.process_gdelt_data
ProcessGdeltData(df) ==
    IF IsEmpty(df) THEN df
    ELSE IF GdeltRaises(df) THEN EmptyFrame
    ELSE GroupByMean(Canonical(df))

\* ------------------------------------------- one job: _fetch_single_pair/date
\* The table the call holds after its upstream call answered (df_filtered of
\* _fetch_single_pair, df of _fetch_single_date).
LocalFrame(api, job, oc) ==
    IF api THEN ArticleSearch(job, oc)
    ELSE FilterByKeyword(DirectSearch(job, oc), Keyword)

\* Mutant of Saves: the direct fetcher saves as the API fetcher does, only
\* a table that has rows.
SavesOnlyRows(api, oc) == oc = "rows"

\* Mutant of Saves: the table is written only when it is of no use.
SavesOnlyEmpty(api, oc) == oc = "empty"

\* Whether the call executes to_csv: always after a search that did not
\* raise (direct), only when articles came back (API).
Saves(api, oc) == IF api THEN oc = "rows" ELSE oc # "error"

\* Whether the call's own try/except absorbs an exception of the upstream.
WorkerCatches == TRUE

\* Mutant of SingleResult: the except branch returns rows as well.
SingleResultLeaky(api, job, oc) ==
    IF api THEN ArticleSearch(job, "rows")
    ELSE FilterByKeyword(DirectSearch(job, "rows"), Keyword)

\* The table the call returns.
SingleResult(api, job, oc) ==
    IF oc = "error" THEN EmptyFrame
    ELSE IF api /\ oc # "rows" THEN EmptyFrame
    ELSE LocalFrame(api, job, oc)

\* Mutant of AfterSearch: a call that failed is submitted again.
AfterSearchRetries(oc) == IF oc # "error" THEN "searched" ELSE "pending"

\* Where a call stands once the upstream answered: on its way to to_csv and
\* return, or, after an exception, returned through its except branch; the
\* job is not submitted again.
AfterSearch(oc) ==
    IF oc # "error" THEN "searched"
    ELSE IF WorkerCatches THEN "returned"
    ELSE "raised"

JobIds == DOMAIN jobs

\* Jobs whose call is running on a pool thread.
Running == {i \in JobIds : fut[i] = "searched"}

\* The pool starts submitted calls in order, at most max_workers at a time;
\* the sequential loop starts a call when the one before it was collected.
MayStart(i) ==
    IF parallel_processing
    THEN /\ \A j \in JobIds : j < i => fut[j] # "pending"
         /\ Cardinality(Running) < max_workers
    ELSE \A j \in JobIds : j < i => fut[j] = "collected"

\* No interrupted fetch() is waiting to be run again.
NoRestart == [stage |-> "none", files |-> {}]

\* ------------------------------------------------------------------ actions
\* GdeltDjtAnalysis.__init__ of a new pipeline object: clean_directories
\* empties the output folder, and nothing of the previous object is kept.
\* Mutant of CleanDirectories: the folder is left as it was found.
CleanDirectoriesKeeps(present) == present

\* clean_directories([...]) on the chunk folder: os.walk over it and os.remove
\* of each file found, the removals succeeding; what is left of `present`.
CleanDirectories(present) == present \ {f \in present : TRUE}

\* GdeltApiFetcher.__init__ / GdeltDirectFetcher.__init__ raise ImportError
\* when the library of the chosen fetcher was not imported.
FetcherRaises(api) == IF api THEN ~GDELTDOC_AVAILABLE ELSE ~gdelt_imported

Construct ==
    /\ pc \in {"done", "processed", "interrupted"}
    /\ run < MaxRuns
    /\ ~FetcherRaises(use_api)
    /\ files' = CleanDirectories(files)
    /\ pc' = "idle"
    /\ jobs' = <<>>
    /\ fut' = <<>>
    /\ outcome' = <<>>
    /\ ret' = <<>>
    /\ calls' = <<>>
    /\ all_data' = <<>>
    /\ combined' = EmptyFrame
    /\ written' = {}
    /\ processed_gdelt' = EmptyFrame
    /\ UNCHANGED <<importVars, use_api, parallel_processing, max_workers, start_date,
                   end_date, run, raised, persisted_at_start,
                   object_mean_raises>>
    /\ UNCHANGED <<stockVars, restart>>

\* fetch() up to the chunker: the jobs are generated and submitted.
FetchStart ==
    /\ pc \in {"idle", "done", "interrupted"}
    /\ run < MaxRuns
    /\ restart' = IF restart.stage = "interrupted"
                  THEN [restart EXCEPT !.stage = "resumed"]
                  ELSE NoRestart
    /\ LET js == Chunker(use_api, start_date, end_date, files)
           every == Chunker(use_api, start_date, end_date, {})
       IN  /\ jobs' = js
           /\ fut' = [i \in DOMAIN js |-> "pending"]
           /\ outcome' = [i \in DOMAIN js |-> "none"]
           /\ ret' = [i \in DOMAIN js |-> EmptyFrame]
           /\ calls' = [i \in DOMAIN js |-> 0]
           /\ persisted_at_start' =
                  \A k \in DOMAIN every : JobPath(use_api, every[k]) \in files
    /\ all_data' = <<>>
    /\ written' = {}
    /\ combined' = EmptyFrame
    /\ run' = run + 1
    /\ pc' = "fetching"
    /\ UNCHANGED <<importVars, use_api, parallel_processing, max_workers, start_date,
                   end_date, files, raised, processed_gdelt,
                   object_mean_raises>>
    /\ UNCHANGED stockVars

\* The upstream call of job i (gd2.Search / gd.article_search) and its answer;
\* when it raises, the except branch of the call returns the empty table.
WorkerSearch(i) ==
    /\ pc = "fetching"
    /\ fut[i] = "pending"
    /\ MayStart(i)
    /\ \E oc \in Outcomes :
          /\ outcome' = [outcome EXCEPT ![i] = oc]
          /\ fut' = [fut EXCEPT ![i] = AfterSearch(oc)]
          /\ ret' = [ret EXCEPT ![i] = IF oc = "error" /\ WorkerCatches
                                       THEN SingleResult(use_api, jobs[i], oc)
                                       ELSE @]
    /\ calls' = [calls EXCEPT ![i] = @ + 1]
    /\ UNCHANGED <<importVars, use_api, parallel_processing, max_workers, start_date,
                   end_date, files, pc, run, jobs, all_data, combined,
                   raised, written, persisted_at_start, processed_gdelt,
                   object_mean_raises>>
    /\ UNCHANGED <<stockVars, restart>>

\* Job i runs from the answer to its return statement: it writes its file if
\* it saves, then returns its table.
WorkerSave(i) ==
    /\ pc = "fetching"
    /\ fut[i] = "searched"
    /\ LET path == JobPath(use_api, jobs[i])
       IN  IF Saves(use_api, outcome[i])
           THEN /\ files' = files \cup {path}
                /\ written' = written \cup {<<i, path>>}
           ELSE UNCHANGED <<files, written>>
    /\ fut' = [fut EXCEPT ![i] = "returned"]
    /\ ret' = [ret EXCEPT ![i] = SingleResult(use_api, jobs[i], outcome[i])]
    /\ UNCHANGED <<importVars, use_api, parallel_processing, max_workers, start_date,
                   end_date, pc, run, jobs, outcome, calls, all_data,
                   combined, raised, persisted_at_start, processed_gdelt,
                   object_mean_raises>>
    /\ UNCHANGED <<stockVars, restart>>

\* The collector takes a finished job (as_completed, or the sequential loop):
\* a non-empty table is appended; an exception of future.result() is logged
\* by the parallel collector and escapes the sequential loop.
Collect(i) ==
    /\ pc = "fetching"
    /\ fut[i] \in {"returned", "raised"}
    /\ fut' = [fut EXCEPT ![i] = "collected"]
    /\ all_data' = IF fut[i] = "returned" /\ ~IsEmpty(ret[i])
                   THEN Append(all_data, ret[i]) ELSE all_data
    /\ raised' = (raised \/ (fut[i] = "raised" /\ ~parallel_processing))
    /\ UNCHANGED <<importVars, use_api, parallel_processing, max_workers, start_date,
                   end_date, files, pc, run, jobs, outcome, ret, calls,
                   combined, written, persisted_at_start, processed_gdelt,
                   object_mean_raises>>
    /\ UNCHANGED <<stockVars, restart>>

\* The process is interrupted while _fetch_parallel waits for its futures:
\* the calls in flight are abandoned, the files written so far stay.
Interrupt ==
    /\ pc = "fetching"
    /\ parallel_processing
    /\ run < MaxRuns
    /\ restart' = [stage |-> "interrupted", files |-> files]
    /\ pc' = "interrupted"
    /\ UNCHANGED <<importVars, use_api, parallel_processing, max_workers, start_date,
                   end_date, files, run, jobs, fut, outcome, ret, calls,
                   all_data, combined, raised, written, persisted_at_start,
                   processed_gdelt, object_mean_raises>>
    /\ UNCHANGED stockVars

\* fetch() combines what was collected and returns.
FetchReturn ==
    /\ pc = "fetching"
    /\ \A i \in JobIds : fut[i] = "collected"
    /\ combined' = IF all_data # <<>> THEN Concat(all_data) ELSE EmptyFrame
    /\ pc' = "done"
    /\ UNCHANGED <<importVars, use_api, parallel_processing, max_workers, start_date,
                   end_date, files, run, jobs, fut, outcome, ret, calls,
                   all_data, raised, written, persisted_at_start,
                   processed_gdelt, object_mean_raises>>
    /\ UNCHANGED <<stockVars, restart>>

\* process_data: the fetched table is normalised and aggregated by day.
ProcessFetched ==
    /\ pc = "done"
    /\ processed_gdelt' = ProcessGdeltData(combined)
    /\ combined' = GdeltInputAfter(combined)
    /\ pc' = "processed"
    /\ UNCHANGED <<importVars, use_api, parallel_processing, max_workers, start_date,
                   end_date, files, run, jobs, fut, outcome, ret, calls,
                   all_data, raised, written, persisted_at_start,
                   object_mean_raises>>
    /\ UNCHANGED <<stockVars, restart>>

Init ==
    /\ use_api \in BOOLEAN
    /\ parallel_processing \in BOOLEAN
    /\ max_workers \in {1, MaxWorkers}
    /\ start_date \in Dates
    /\ end_date \in {d \in Dates : start_date <= d}
    /\ object_mean_raises = TRUE
    /\ files = {}
    /\ pc = "idle"
    /\ run = 0
    /\ jobs = <<>>
    /\ fut = <<>>
    /\ outcome = <<>>
    /\ ret = <<>>
    /\ calls = <<>>
    /\ all_data = <<>>
    /\ combined = EmptyFrame
    /\ raised = FALSE
    /\ written = {}
    /\ persisted_at_start = FALSE
    /\ processed_gdelt = EmptyFrame
    /\ interval = "1d"
    /\ stock_data = [columns |-> <<>>, index |-> <<>>, rows |-> <<>>]
    /\ processed_stock = EmptyFrame
    /\ merged_data = EmptyFrame
    /\ final_data = EmptyFrame
    /\ results = {}
    /\ saved = {}
    /\ identical_x_raises = TRUE
    /\ restart = NoRestart
    /\ gdelt_imported = TRUE
    /\ GDELTDOC_AVAILABLE = TRUE

Next ==
    \/ Construct
    \/ FetchStart
    \/ Interrupt
    \/ \E i \in JobIds : WorkerSearch(i)
    \/ \E i \in JobIds : WorkerSave(i)
    \/ \E i \in JobIds : Collect(i)
    \/ FetchReturn
    \/ ProcessFetched

vars == <<fetchVars, stockVars, restart>>

Spec == Init /\ [][Next]_vars

\* ------------------------------------------------------------------ main()
\* A configured date is a day ordinal, or -1 for a text that
\* datetime.strptime(text, '%Y-%m-%d') rejects with ValueError.
ConfigDates == Dates \cup {-1}

Strptime(text) == IF text >= 0 THEN <<"date", text>> ELSE <<"ValueError", 0>>

\* Mutant of ValidateDateRange: only the format is validated.
ValidateDateRangeFormatOnly(s, e) ==
    /\ Strptime(s)[1] = "date"
    /\ Strptime(e)[1] = "date"

\* validate_date_range(start_date, end_date)
ValidateDateRange(s, e) ==
    /\ Strptime(s)[1] = "date"
    /\ Strptime(e)[1] = "date"
    /\ Strptime(s)[2] <= Strptime(e)[2]

mainRest == <<importVars, use_api, parallel_processing, max_workers,
              start_date, end_date, run, jobs, fut, outcome, ret, calls,
              all_data, combined, raised, written, persisted_at_start,
              processed_gdelt, object_mean_raises, stockVars, restart>>

\* main(), lines 262-265: an invalid range prints a message and exits.
MainValidate ==
    /\ pc = "main"
    /\ pc' = IF ValidateDateRange(start_date, end_date)
             THEN "validated" ELSE "exited"
    /\ UNCHANGED <<mainRest, files>>

\* main(), line 269: analysis = GdeltDjtAnalysis(config). _init_fetchers
\* builds the fetcher first; an ImportError leaves __init__ before the
\* folders are touched and is caught by main's `except Exception`.
MainConstruct ==
    /\ pc = "validated"
    /\ IF FetcherRaises(use_api)
       THEN /\ pc' = "failed"
            /\ UNCHANGED files
       ELSE /\ pc' = "idle"
            /\ files' = CleanDirectories(files)
    /\ UNCHANGED mainRest

\* Chunk files an earlier process may have left in the output folder.
Leftovers ==
    {{}, {DirectOutputFilename(30, 31), ApiOutputFilename(30)}}

InitMain ==
    /\ use_api \in BOOLEAN
    /\ parallel_processing \in BOOLEAN
    /\ max_workers \in {1, MaxWorkers}
    /\ start_date \in ConfigDates
    /\ end_date \in ConfigDates
    /\ gdelt_imported \in BOOLEAN
    /\ GDELTDOC_AVAILABLE \in BOOLEAN
    /\ files \in Leftovers
    /\ pc = "main"
    /\ object_mean_raises = TRUE
    /\ run = 0
    /\ jobs = <<>>
    /\ fut = <<>>
    /\ outcome = <<>>
    /\ ret = <<>>
    /\ calls = <<>>
    /\ all_data = <<>>
    /\ combined = EmptyFrame
    /\ raised = FALSE
    /\ written = {}
    /\ persisted_at_start = FALSE
    /\ processed_gdelt = EmptyFrame
    /\ interval = "1d"
    /\ stock_data = [columns |-> <<>>, index |-> <<>>, rows |-> <<>>]
    /\ processed_stock = EmptyFrame
    /\ merged_data = EmptyFrame
    /\ final_data = EmptyFrame
    /\ results = {}
    /\ saved = {}
    /\ identical_x_raises = TRUE
    /\ restart = NoRestart

NextMain ==
    \/ MainValidate
    \/ MainConstruct
    \/ Next

SpecMain == InitMain /\ [][NextMain]_vars

\* ============================================================ fetch claims
\* fetch() has returned and its table is untouched yet.
Fetched == pc = "done"

TotalCalls == Cardinality({i \in JobIds : calls[i] > 0})

\* C1 (as claimed): a fetch() that begins when every chunk of the range has
\* its output file, left by an earlier fetch() on the same range, makes no
\* upstream call.
C1_SecondRunFetchesNothing ==
    (run >= 2 /\ pc # "idle" /\ persisted_at_start)
        => \A i \in JobIds : calls[i] = 0

\* C2 (as claimed, in its weakest reading): on an empty output folder the
\* chunker's ranges leave no day of [start, end] out (a range counted as
\* holding both its end days), put no day outside it (a range counted
\* without its last day), do not overlap and follow one another.
C2_ChunkerCoversRange ==
    (run = 1 /\ pc = "fetching") =>
        /\ \A d \in start_date .. end_date :
              \E i \in JobIds : jobs[i].cur <= d /\ d <= jobs[i].next
        /\ \A i \in JobIds : start_date <= jobs[i].cur /\ jobs[i].next <= end_date + 1
        /\ \A i, j \in JobIds : i < j => jobs[i].next <= jobs[j].cur
        /\ \A i \in JobIds :
              i + 1 \in JobIds => jobs[i + 1].cur \in {jobs[i].next, jobs[i].next + 1}

\* Jobs whose upstream call did not raise.
Succeeded == {i \in JobIds : outcome[i] # "error"}

\* C3: whichever jobs fail, fetch() returns without raising and its table
\* holds exactly the rows of the jobs that succeeded, each once; it is the
\* empty table when every job failed.
C3_FailedJobsExcluded ==
    Fetched =>
        /\ ~raised
        /\ RowSet(combined) =
              UNION {RowSet(LocalFrame(use_api, jobs[i], outcome[i])) : i \in Succeeded}
        /\ Len(combined.rows) = Cardinality(RowSet(combined))
        /\ (Succeeded = {} => combined = EmptyFrame)

C3_Witness ==
    /\ Fetched
    /\ \E i, j \in JobIds : outcome[i] = "error" /\ outcome[j] = "rows"
    /\ combined # EmptyFrame

C3_WitnessAllFailed ==
    Fetched /\ JobIds # {} /\ Succeeded = {}

\* C4: a job whose table has been returned to the collector wrote that table
\* to its destination path beforehand.
C4_PersistBeforeCollect ==
    \A i \in JobIds :
        (fut[i] \in {"returned", "collected"} /\ ~IsEmpty(ret[i]))
            => <<i, JobPath(use_api, jobs[i])>> \in written

C4_Witness ==
    /\ parallel_processing
    /\ \E i, j \in JobIds :
          /\ i < j
          /\ fut[j] = "collected" /\ ~IsEmpty(ret[j])
          /\ fut[i] = "searched"

\* C5: distinct jobs of one fetch() have distinct destination paths, and no
\* path is written by two jobs.
C5_DistinctPaths ==
    /\ \A i, j \in JobIds :
          i # j => JobPath(use_api, jobs[i]) # JobPath(use_api, jobs[j])
    /\ \A w1, w2 \in written : w1[2] = w2[2] => w1[1] = w2[1]

C5_Witness ==
    /\ parallel_processing
    /\ \E i, j \in JobIds :
          /\ i # j
          /\ fut[i] = "returned" /\ fut[j] = "returned"
          /\ {<<i, JobPath(use_api, jobs[i])>>, <<j, JobPath(use_api, jobs[j])>>}
                 \subseteq written

\* The tables of the jobs in submission order, as a sequential run collects.
RECURSIVE InJobOrder(_)
InJobOrder(i) ==
    IF i \notin JobIds THEN <<>>
    ELSE (IF IsEmpty(ret[i]) THEN <<>> ELSE <<ret[i]>>) \o InJobOrder(i + 1)

RECURSIVE Reverse(_)
Reverse(sq) == IF sq = <<>> THEN <<>> ELSE Reverse(Tail(sq)) \o <<Head(sq)>>

NoTimestamp == <<0, 0>>

TsCell(t) == [text |-> "", ts |-> t, num |-> NaN]

NumCell(x) == [text |-> "", ts |-> NoTimestamp, num |-> x]

Label(str) == [text |-> str, ts |-> NoTimestamp, num |-> NaN]

NanCell == [text |-> "", ts |-> NoTimestamp, num |-> NaN]

\* A raw price table: column labels in order, index labels, rows of cells.
EmptyStock == [columns |-> <<>>, index |-> <<>>, rows |-> <<>>]

\* 'date' in col.lower(), over the column names that occur.
ContainsDate(col) == col \in {"Date", "date", "Datetime"}

\* 'close' in col.lower(), over the column names that occur.
ContainsClose(col) == col \in {"Close", "close", "Adj Close", "adj close"}

\* The malformed header pattern: 'Price' and 'Ticker' head the first column.
HasHeaderArtifact(df) ==
    /\ Len(df.rows) >= 3
    /\ df.rows[1][1].text = "Price"
    /\ df.rows[2][1].text = "Ticker"

\* df.iloc[4:] with the third row as the column names.
StripHeader(df) ==
    [columns |-> [j \in DOMAIN df.rows[3] |-> df.rows[3][j].text],
     index |-> [i \in 1 .. (Len(df.rows) - 4) |-> NumCell(Rat(i - 1, 1))],
     rows |-> [i \in 1 .. (Len(df.rows) - 4) |-> df.rows[i + 4]]]

\* df_clean of process_stock_data.
StockClean(df) == IF HasHeaderArtifact(df) THEN StripHeader(df) ELSE df

\* Position of the first column of `hits`, 0 when there is none.
FirstOf(hits) == IF hits = {} THEN 0 ELSE CHOOSE j \in hits : \A k \in hits : j <= k

\* date_col: the first column whose name holds 'date'.
DateColumn(columns) == FirstOf({j \in DOMAIN columns : ContainsDate(columns[j])})

\* price_col: the first column whose name holds 'close' (the 'adj close'
\* test comes second in the loop and never decides).
PriceColumn(columns) == FirstOf({j \in DOMAIN columns : ContainsClose(columns[j])})

\* The cell the date of row i is read from: the date column, else the index.
StockDateCell(clean, i) ==
    LET date_col == DateColumn(clean.columns)
    IN  IF date_col # 0 THEN clean.rows[i][date_col] ELSE clean.index[i]

\* col.lower() raises on a column name that is no string (a NaN header
\* cell), and to_datetime raises on a label that is no date.
StockRaises(clean) ==
    \/ \E j \in DOMAIN clean.columns : clean.columns[j] = ""
    \/ \E i \in DOMAIN clean.rows :
          LET c == StockDateCell(clean, i)
          IN  c.text # "" \/ (c.ts # NoTimestamp /\ ~CanParse(c.ts))

\* DataProcessor.process_stock_data
ProcessStockData(df) ==
    IF df.rows = <<>> THEN EmptyFrame
    ELSE LET clean == StockClean(df)
             price_col == PriceColumn(clean.columns)
             kept == {i \in DOMAIN clean.rows :
                         /\ StockDateCell(clean, i).ts # NoTimestamp
                         /\ ~IsNaN(clean.rows[i][price_col].num)}
             Row(i) == [Date |-> ParseTimestamp(StockDateCell(clean, i).ts),
                        AdjClose |-> clean.rows[i][price_col].num]
             \* dropna keeps the surviving rows in their order
             Pos(k) == CHOOSE i \in kept : Cardinality({j \in kept : j < i}) = k - 1
         IN  IF StockRaises(clean) \/ price_col = 0 THEN EmptyFrame
             ELSE [cols |-> {"Date", "Adj Close"},
                   rows |-> [k \in 1 .. Cardinality(kept) |-> Row(Pos(k))]]

\* ================================================== merger and differencer
\* astype(str) of a 'Date' cell: the cells are ISO date strings already.
AsStr(date) == date

RECURSIVE MatchesOf(_, _)
\* The rows of `right` with the date of `l`, each joined to `l`, in order.
MatchesOf(l, right) ==
    IF right = <<>> THEN <<>>
    ELSE (IF AsStr(Head(right).Date) = AsStr(l.Date)
          THEN <<[Date |-> AsStr(l.Date), V2ToneOut |-> l.V2ToneOut,
                  AdjClose |-> Head(right).AdjClose]>>
          ELSE <<>>) \o MatchesOf(l, Tail(right))

RECURSIVE InnerJoin(_, _)
\* gdelt_df.merge(stock_df, on='Date', how='inner'): left order is kept.
InnerJoin(left, right) ==
    IF left = <<>> THEN <<>>
    ELSE MatchesOf(Head(left), right) \o InnerJoin(Tail(left), right)

\* DataProcessor.merge_datasets
MergeDatasets(gdelt_df, stock_df) ==
    IF IsEmpty(gdelt_df) \/ IsEmpty(stock_df) THEN EmptyFrame
    ELSE IF "Date" \notin gdelt_df.cols \/ "Date" \notin stock_df.cols THEN EmptyFrame
    ELSE [cols |-> {"Date", "V2ToneOut", "Adj Close"},
          rows |-> InnerJoin(gdelt_df.rows, stock_df.rows)]

\* Mutant of ToneDiffAt: shift(-1), the row after it instead of the row before.
ToneDiffAhead(rows, i) ==
    IF i = Len(rows) THEN NaN ELSE Minus(rows[i].V2ToneOut, rows[i + 1].V2ToneOut)

\* df['V2ToneOut'] - df['V2ToneOut'].shift(1) at row i: NaN in the first row.
ToneDiffAt(rows, i) ==
    IF i = 1 THEN NaN ELSE Minus(rows[i].V2ToneOut, rows[i - 1].V2ToneOut)

\* df['Adj Close'] - df['Adj Close'].shift(1) at row i.
PriceDiffAt(rows, i) ==
    IF i = 1 THEN NaN ELSE Minus(rows[i].AdjClose, rows[i - 1].AdjClose)

\* The caller's table after calculate_differences: the two difference
\* columns are assigned to it in place.
WithDifferences(df) ==
    IF IsEmpty(df) THEN df
    ELSE [cols |-> df.cols \cup {"diff_Adj Close", "diff_V2ToneOut"},
          rows |-> [i \in DOMAIN df.rows |->
                       [Date |-> df.rows[i].Date,
                        V2ToneOut |-> df.rows[i].V2ToneOut,
                        AdjClose |-> df.rows[i].AdjClose,
                        diff_AdjClose |-> PriceDiffAt(df.rows, i),
                        diff_V2ToneOut |-> ToneDiffAt(df.rows, i)]]]

RECURSIVE DropNaDiffs(_)
\* dropna(subset=['diff_V2ToneOut', 'diff_Adj Close'])
DropNaDiffs(rows) ==
    IF rows = <<>> THEN <<>>
    ELSE (IF IsNaN(Head(rows).diff_V2ToneOut) \/ IsNaN(Head(rows).diff_AdjClose)
          THEN <<>> ELSE <<Head(rows)>>) \o DropNaDiffs(Tail(rows))

\* DataProcessor.calculate_differences
CalculateDifferences(df) ==
    IF IsEmpty(df) THEN df
    ELSE [cols |-> WithDifferences(df).cols,
          rows |-> DropNaDiffs(WithDifferences(df).rows)]

\* ============================================================= the analyzer
\* A result dict is the set of its entries. A statistic is kept as "num" or
\* "nan" (whether it is a number); a nested dict as "dict", its own entries
\* carrying its key and their lag.
Entry(key, lag, value) == [key |-> key, lag |-> lag, value |-> value]

\* The column of a table, as the sequence of its cells.
ToneOf(df) == [i \in DOMAIN df.rows |-> df.rows[i].V2ToneOut]

PriceOf(df) == [i \in DOMAIN df.rows |-> df.rows[i].AdjClose]

DiffToneOf(df) == [i \in DOMAIN df.rows |-> df.rows[i].diff_V2ToneOut]

DiffPriceOf(df) == [i \in DOMAIN df.rows |-> df.rows[i].diff_AdjClose]

\* The positions of two columns where both hold a value.
BothPresent(xs, ys) == {i \in DOMAIN xs : ~IsNaN(xs[i]) /\ ~IsNaN(ys[i])}

\* Series.corr (Pearson or Spearman): NaN on fewer than two complete pairs
\* and when either side does not vary over them.
Corr(xs, ys) ==
    LET on == BothPresent(xs, ys)
    IN  IF /\ Cardinality(on) >= 2
           /\ \E i, j \in on : xs[i] # xs[j]
           /\ \E i, j \in on : ys[i] # ys[j]
        THEN "num" ELSE "nan"

\* max_lags: int = 5
MaxLags == 5

\* series.shift(k): the cell k rows up, NaN in the first k rows.
Shift(xs, k) == [i \in DOMAIN xs |-> IF i - k \in DOMAIN xs THEN xs[i - k] ELSE NaN]

\* Mutant of CalculateLagCorrelations: a lag is reported on an overlap of
\* one point as well (>= 1 for > 1).
CalculateLagCorrelationsOnePoint(df) ==
    {Entry("stock_lag", lag, Corr(Shift(ToneOf(df), lag), PriceOf(df))) :
        lag \in {k \in 1 .. MaxLags :
                    Cardinality(BothPresent(Shift(ToneOf(df), k), PriceOf(df))) >= 1}}
    \cup
    {Entry("sentiment_lag", lag, Corr(ToneOf(df), Shift(PriceOf(df), lag))) :
        lag \in {k \in 1 .. MaxLags :
                    Cardinality(BothPresent(ToneOf(df), Shift(PriceOf(df), k))) >= 1}}

\* DataAnalyzer._calculate_lag_correlations: lag k > 0 is 'stock_lag_k',
\* lag -k is 'sentiment_lag_k'.
CalculateLagCorrelations(df) ==
    {Entry("stock_lag", lag, Corr(Shift(ToneOf(df), lag), PriceOf(df))) :
        lag \in {k \in 1 .. MaxLags :
                    Cardinality(BothPresent(Shift(ToneOf(df), k), PriceOf(df))) > 1}}
    \cup
    {Entry("sentiment_lag", lag, Corr(ToneOf(df), Shift(PriceOf(df), lag))) :
        lag \in {k \in 1 .. MaxLags :
                    Cardinality(BothPresent(ToneOf(df), Shift(PriceOf(df), k))) > 1}}

HasLevels(df) == {"V2ToneOut", "Adj Close"} \subseteq df.cols

HasDiffs(df) == {"diff_V2ToneOut", "diff_Adj Close"} \subseteq df.cols

\* DataAnalyzer.analyze_correlation
AnalyzeCorrelation(df) ==
    IF IsEmpty(df) THEN {}
    ELSE (IF HasLevels(df)
          THEN {Entry("correlation", 0, Corr(ToneOf(df), PriceOf(df))),
                Entry("spearman_correlation", 0, Corr(ToneOf(df), PriceOf(df))),
                Entry("lag_correlations", 0, "dict")}
                   \cup CalculateLagCorrelations(df)
          ELSE {})
         \cup
         (IF HasDiffs(df)
          THEN {Entry("diff_correlation", 0, Corr(DiffToneOf(df), DiffPriceOf(df))),
                Entry("diff_spearman_correlation", 0,
                      Corr(DiffToneOf(df), DiffPriceOf(df)))}
          ELSE {})

\* stats.linregress raises ValueError on several x values that are all the
\* same, in the scipy versions that check for it.
LinregressRaises(xs) ==
    /\ identical_x_raises
    /\ Len(xs) > 1
    /\ \A i, j \in DOMAIN xs : xs[i] = xs[j]

\* The slope of the fitted line: NaN when x does not vary or holds a NaN.
Slope(xs, ys) ==
    IF /\ \E i, j \in DOMAIN xs : xs[i] # xs[j]
       /\ \A i \in DOMAIN xs : ~IsNaN(xs[i]) /\ ~IsNaN(ys[i])
    THEN "num" ELSE "nan"

\* DataAnalyzer.perform_regression: an exception of either fit empties the
\* whole result.
PerformRegression(df) ==
    IF IsEmpty(df) THEN {}
    ELSE IF \/ HasLevels(df) /\ LinregressRaises(ToneOf(df))
            \/ HasDiffs(df) /\ LinregressRaises(DiffToneOf(df))
    THEN {}
    ELSE (IF HasLevels(df)
          THEN {Entry("level", 0, Slope(ToneOf(df), PriceOf(df)))} ELSE {})
         \cup
         (IF HasDiffs(df)
          THEN {Entry("differences", 0, Slope(DiffToneOf(df), DiffPriceOf(df)))}
          ELSE {})

\* Mutant of AnalyzeData: the two parts are stored whatever they hold.
AnalyzeDataUnguarded(data) ==
    {[part |-> "correlation", entries |-> AnalyzeCorrelation(data)],
     [part |-> "regression", entries |-> PerformRegression(data)]}

\* GdeltDjtAnalysis.analyze: each part is stored under its key when it is
\* not empty.
AnalyzeData(data) ==
    IF IsEmpty(data) THEN {}
    ELSE LET correlation_results == AnalyzeCorrelation(data)
             regression_results == PerformRegression(data)
         IN  (IF correlation_results # {}
              THEN {[part |-> "correlation", entries |-> correlation_results]}
              ELSE {})
             \cup
             (IF regression_results # {}
              THEN {[part |-> "regression", entries |-> regression_results]}
              ELSE {})

\* ------------------------------------------------ process_data, stage by stage
\* Everything of the fetch stage but the caller's position.
fetchRest == <<importVars, use_api, parallel_processing, max_workers, start_date, end_date,
               files, run, jobs, fut, outcome, ret, calls, all_data, combined,
               raised, written, persisted_at_start, processed_gdelt,
               object_mean_raises, restart>>

\* processed_stock = self.data_processor.process_stock_data(stock_data)
ProcessStock ==
    /\ pc = "processed"
    /\ processed_stock' = ProcessStockData(stock_data)
    /\ pc' = "stock_processed"
    /\ UNCHANGED <<fetchRest, interval, stock_data, merged_data, final_data,
                   analysisVars>>

\* merged_data = self.data_processor.merge_datasets(processed_gdelt, processed_stock)
Merge ==
    /\ pc = "stock_processed"
    /\ merged_data' = MergeDatasets(processed_gdelt, processed_stock)
    /\ pc' = "merged"
    /\ UNCHANGED <<fetchRest, interval, stock_data, processed_stock, final_data,
                   analysisVars>>

\* final_data = calculate_differences(merged_data) when the merge is not
\* empty, pd.DataFrame() otherwise; the merged table gets the difference
\* columns in place.
Differences ==
    /\ pc = "merged"
    /\ final_data' = IF ~IsEmpty(merged_data) THEN CalculateDifferences(merged_data)
                     ELSE EmptyFrame
    /\ merged_data' = WithDifferences(merged_data)
    /\ pc' = "differenced"
    /\ UNCHANGED <<fetchRest, interval, stock_data, processed_stock, analysisVars>>

\* results = self.analyze(processed_data)
Analyze ==
    /\ pc = "differenced"
    /\ results' = AnalyzeData(final_data)
    /\ pc' = "analyzed"
    /\ UNCHANGED <<fetchRest, interval, stock_data, processed_stock, merged_data,
                   final_data, saved, identical_x_raises>>

\* The tail of run_complete_analysis: the results are saved when there are
\* any, the processed table when it is not empty.
SaveResults ==
    /\ pc = "analyzed"
    /\ saved' = (IF results # {} THEN {"analysis_results.json"} ELSE {})
                    \cup (IF ~IsEmpty(final_data) THEN {"merged_data.csv"} ELSE {})
    /\ pc' = "finished"
    /\ UNCHANGED <<fetchRest, interval, stock_data, processed_stock, merged_data,
                   final_data, results, identical_x_raises>>

\* ------------------------------------------------------ the tables fetched
\* What the event source holds for one day: nothing, or records whose tone
\* string is whole ("ok") or too short to have the tone part ("short").
DayRecords == {<<>>, <<"ok">>, <<"short">>, <<"ok", "ok">>}

EventRow(d, k, kind) ==
    [GKGRECORDID |-> <<d, k>>, DATE |-> Noon(d),
     V2Tone |-> IF kind = "ok" THEN ToneString(3 * (d - 30) + k) ELSE <<Rat(0, 1)>>,
     Themes |-> {"trump"}]

RECURSIVE EventRows(_, _)
\* The records of the days from d on, day by day.
EventRows(d, records) ==
    IF d \notin Dates THEN <<>>
    ELSE [k \in DOMAIN records[d] |-> EventRow(d, k, records[d][k])]
             \o EventRows(d + 1, records)

EventTable(records) == [cols |-> DirectCols, rows |-> EventRows(30, records)]

\* config.stock.interval: daily bars, or intraday bars (two in a day here).
Intervals == {"1d", "1h"}

BarCounts(iv) == IF iv = "1d" THEN 0 .. 1 ELSE 0 .. 2

BarTime(iv, d, k) == <<StrftimeCompact(d), IF iv = "1d" THEN 0 ELSE 83000 + 10000 * k>>

ClosePrice(d, k) == Rat(100 + 2 * (d - 30) * (d - 30) + k, 1)

AdjClosePrice(d, k) == Rat(2 * (100 + 2 * (d - 30) * (d - 30) + k) - 1, 2)

\* One bar: its index label and its cells, in the layout of the shape.
Bar(shape, iv, d, k) ==
    IF shape = "indexed"
    THEN [label |-> TsCell(BarTime(iv, d, k)),
          cells |-> <<NumCell(ClosePrice(d, k)), NumCell(AdjClosePrice(d, k))>>]
    ELSE [label |-> NanCell,
          cells |-> <<TsCell(BarTime(iv, d, k)), NumCell(AdjClosePrice(d, k)),
                      NumCell(ClosePrice(d, k))>>]

RECURSIVE Bars(_, _, _, _)
Bars(shape, iv, d, bars) ==
    IF d \notin Dates THEN <<>>
    ELSE [k \in 1 .. bars[d] |-> Bar(shape, iv, d, k)] \o Bars(shape, iv, d + 1, bars)

\* The table of yf.download, indexed by time ("indexed"), and the same bars
\* in the Date / Adj Close schema process_stock_data also takes ("clean").
StockTable(shape, iv, bars) ==
    LET bs == Bars(shape, iv, 30, bars)
    IN  [columns |-> IF shape = "indexed" THEN <<"Close", "Adj Close">>
                     ELSE <<"Date", "Adj Close", "Close">>,
         index |-> [i \in DOMAIN bs |-> bs[i].label],
         rows |-> [i \in DOMAIN bs |-> bs[i].cells]]

\* The event batch of the end-to-end scenario: tones 1 and 3 on 2024-01-01
\* and 5 on 2024-01-02, in the schema of the direct fetcher.
ScenarioEvents ==
    [cols |-> DirectCols,
     rows |-> <<[GKGRECORDID |-> <<0, 1>>, DATE |-> Noon(0),
                 V2Tone |-> ToneString(1), Themes |-> {"trump"}],
                [GKGRECORDID |-> <<0, 2>>, DATE |-> Noon(0),
                 V2Tone |-> ToneString(3), Themes |-> {"trump"}],
                [GKGRECORDID |-> <<1, 1>>, DATE |-> Noon(1),
                 V2Tone |-> ToneString(5), Themes |-> {"trump"}]>>]

\* The price batch of the scenario: 100, 102 and 99 on 2024-01-01 .. 03, in
\* the Date / Adj Close schema.
ScenarioPrices ==
    [columns |-> <<"Date", "Adj Close">>,
     index |-> <<NanCell, NanCell, NanCell>>,
     rows |-> <<<<TsCell(<<StrftimeCompact(0), 0>>), NumCell(Rat(100, 1))>>,
                <<TsCell(<<StrftimeCompact(1), 0>>), NumCell(Rat(102, 1))>>,
                <<TsCell(<<StrftimeCompact(2), 0>>), NumCell(Rat(99, 1))>>>>]

\* Price batches in a schema with a Date column: the scenario's, and the
\* daily bars of the range.
CleanTables ==
    {ScenarioPrices} \cup {StockTable("clean", "1d", bars) : bars \in [Dates -> 0 .. 1]}

\* The malformed shape of the table t: read without a header, so that the
\* columns are numbered and the first three rows are a 'Price' row, a
\* 'Ticker' row and the real header row, with the data rows of t below.
Malformed(t) ==
    LET width == DOMAIN t.columns
        price == [j \in width |-> IF j = 1 THEN Label("Price") ELSE Label(t.columns[j])]
        ticker == [j \in width |-> IF j = 1 THEN Label("Ticker") ELSE Label("DJT")]
        header == [j \in width |-> Label(t.columns[j])]
    IN  [columns |-> [j \in width |-> "numbered"],
         index |-> [i \in 1 .. (Len(t.rows) + 3) |-> NumCell(Rat(i - 1, 1))],
         rows |-> <<price, ticker, header>> \o t.rows]

\* Columns an upstream row set may or may not carry.
OptionalCols == {"seendate", "DATE", "date", "V2Tone"}

\* A record with every optional column, each timestamp on a day of its own:
\* seendate on 2024-01-31, DATE on 2024-02-01, date on 2024-02-02.
FullRecord(k) ==
    [url |-> <<30, k>>, seendate |-> Noon(30), DATE |-> Noon(31),
     date |-> Noon(32), V2Tone |-> ToneString(4)]

\* A batch of n records that carries the columns `opt` and no other
\* optional one.
MarkedRows(opt, n) ==
    [cols |-> {"url"} \cup opt,
     rows |-> [k \in 1 .. n |-> [c \in {"url"} \cup opt |-> FullRecord(k)[c]]]]

\* The batch of two records with the columns `opt`.
MarkedTable(opt) == MarkedRows(opt, 2)

\* The state when fetch_data has returned the two tables to process_data:
\* batches of the days of the range, or the tables of the scenario, each of
\* which may be the pd.DataFrame() of a fetch that got nothing.
InitProc ==
    /\ use_api = FALSE
    /\ parallel_processing = TRUE
    /\ max_workers = MaxWorkers
    /\ start_date = 30
    /\ end_date = 30 + MaxSpan
    /\ object_mean_raises \in BOOLEAN
    /\ files = {}
    /\ pc = "done"
    /\ run = 1
    /\ jobs = <<>>
    /\ fut = <<>>
    /\ outcome = <<>>
    /\ ret = <<>>
    /\ calls = <<>>
    /\ all_data = <<>>
    /\ raised = FALSE
    /\ written = {}
    /\ persisted_at_start = FALSE
    /\ processed_gdelt = EmptyFrame
    /\ \/ /\ \E records \in [Dates -> DayRecords] : combined = EventTable(records)
          /\ interval \in Intervals
          /\ \E shape \in {"indexed", "clean"} :
                \E bars \in [Dates -> BarCounts(interval)] :
                    stock_data = StockTable(shape, interval, bars)
       \/ /\ combined = EventTable([d \in Dates |-> <<"ok">>])
          /\ interval = "1h"
          /\ stock_data = StockTable("clean", "1h", [d \in Dates |-> 3])
       \/ /\ combined \in {EmptyFrame, ScenarioEvents}
          /\ interval = "1d"
          /\ stock_data \in {EmptyStock, ScenarioPrices}
       \/ /\ combined \in {EmptyFrame, ScenarioEvents}
          /\ interval = "1d"
          /\ \E t \in CleanTables : stock_data = Malformed(t)
       \/ /\ \E opt \in SUBSET OptionalCols :
                \E n \in 1 .. 3 : combined = MarkedRows(opt, n)
          /\ interval = "1d"
          /\ stock_data = EmptyStock
    /\ processed_stock = EmptyFrame
    /\ merged_data = EmptyFrame
    /\ final_data = EmptyFrame
    /\ results = {}
    /\ saved = {}
    /\ identical_x_raises \in BOOLEAN
    /\ restart = NoRestart
    /\ gdelt_imported = TRUE
    /\ GDELTDOC_AVAILABLE = TRUE

NextProc ==
    \/ ProcessFetched
    \/ ProcessStock
    \/ Merge
    \/ Differences
    \/ Analyze
    \/ SaveResults

SpecProc == InitProc /\ [][NextProc]_vars

\* ======================================================= processing claims
DatesOf(df) == {df.rows[i].Date : i \in DOMAIN df.rows}

Min(a, b) == IF a <= b THEN a ELSE b

\* C7 (as claimed): the merge of the two processed series has at most as
\* many rows as the shorter of them.
C7_MergeAtMostMin ==
    pc = "merged" =>
        Len(merged_data.rows) <= Min(Len(processed_gdelt.rows), Len(processed_stock.rows))

\* C8 (as claimed): the merge has exactly one record per date present in
\* both processed series, and none for another date.
C8_OneRecordPerCommonDate ==
    pc = "merged" =>
        /\ DatesOf(merged_data) = DatesOf(processed_gdelt) \cap DatesOf(processed_stock)
        /\ \A i, j \in DOMAIN merged_data.rows :
              merged_data.rows[i].Date = merged_data.rows[j].Date => i = j

\* C9 (as claimed, on daily bars): calculate_differences returns
\* |series| - 1 rows for a merged series of at least one row, and no row for
\* a shorter one.
C9_DifferencesDropOneRow ==
    (pc = "differenced" /\ interval = "1d") =>
        Len(final_data.rows) =
            IF Len(merged_data.rows) >= 1 THEN Len(merged_data.rows) - 1 ELSE 0

\* C10 (as claimed, on daily bars): row i of the output carries, for the
\* tone and for the price, input row i + 1 minus input row i.
C10_DifferenceOfNeighbours ==
    (pc = "differenced" /\ interval = "1d") =>
        \A i \in DOMAIN final_data.rows :
            /\ i + 1 \in DOMAIN merged_data.rows
            /\ final_data.rows[i].diff_V2ToneOut =
                  Minus(merged_data.rows[i + 1].V2ToneOut, merged_data.rows[i].V2ToneOut)
            /\ final_data.rows[i].diff_AdjClose =
                  Minus(merged_data.rows[i + 1].AdjClose, merged_data.rows[i].AdjClose)

\* The run is the end-to-end scenario: its price batch, and its event batch
\* as fetched or with the columns the normaliser added to it.
InScenario ==
    /\ stock_data = ScenarioPrices
    /\ combined \in {ScenarioEvents, GdeltInputAfter(ScenarioEvents)}

Jan(day) == <<2024, 1, day>>

\* C11: in the scenario the events aggregate to (01-01, 2), (01-02, 5); the
\* merge has the two rows of 01-01 and 01-02 with prices 100 and 102; the
\* differences are one row with diff_sentiment = 3 and diff_price = 2.
C11_EndToEndScenario ==
    InScenario =>
        /\ pc \in {"processed", "stock_processed", "merged", "differenced"} =>
              processed_gdelt.rows = <<[Date |-> Jan(1), V2ToneOut |-> Rat(2, 1)],
                                       [Date |-> Jan(2), V2ToneOut |-> Rat(5, 1)]>>
        /\ pc = "merged" =>
              merged_data.rows =
                  <<[Date |-> Jan(1), V2ToneOut |-> Rat(2, 1), AdjClose |-> Rat(100, 1)],
                    [Date |-> Jan(2), V2ToneOut |-> Rat(5, 1), AdjClose |-> Rat(102, 1)]>>
        /\ pc = "differenced" =>
              /\ Len(final_data.rows) = 1
              /\ final_data.rows[1].Date = Jan(2)
              /\ final_data.rows[1].diff_V2ToneOut = Rat(3, 1)
              /\ final_data.rows[1].diff_AdjClose = Rat(2, 1)

C11_Witness ==
    /\ InScenario
    /\ pc = "differenced"
    /\ Len(merged_data.rows) = 2
    /\ Len(final_data.rows) = 1

\* The fetch stage gave no row for the event source or for the price source.
ZeroUsable == IsEmpty(combined) \/ stock_data.rows = <<>>

\* C12: when the fetch stage yields no row for either source, the merged
\* table is empty, the analysis result is empty, and the run finishes
\* having raised nothing and written neither output file.
C12_EmptyFetchEmptyResult ==
    ZeroUsable =>
        /\ ~raised
        /\ pc \in {"merged", "differenced", "analyzed", "finished"} =>
              IsEmpty(merged_data)
        /\ pc \in {"differenced", "analyzed", "finished"} => IsEmpty(final_data)
        /\ pc \in {"analyzed", "finished"} => results = {}
        /\ pc = "finished" => saved = {}

C12_Witness ==
    /\ pc = "finished"
    /\ results = {}
    /\ \/ IsEmpty(combined) /\ stock_data = ScenarioPrices
       \/ combined = GdeltInputAfter(ScenarioEvents) /\ stock_data = EmptyStock

\* The series the handler of the first marker column present in the order
\* seendate, DATE, date gives for MarkedTable(opt): the day of that column
\* (2025-01-01 without any), with the extracted tone 4 only under DATE with
\* a tone column, and the neutral value 1 otherwise.
ByPriority(opt) ==
    IF "seendate" \in opt THEN <<[Date |-> <<2024, 1, 31>>, V2ToneOut |-> Rat(1, 1)]>>
    ELSE IF "DATE" \in opt
         THEN <<[Date |-> <<2024, 2, 1>>,
                 V2ToneOut |-> IF "V2Tone" \in opt THEN Rat(4, 1) ELSE Rat(1, 1)]>>
    ELSE IF "date" \in opt THEN <<[Date |-> <<2024, 2, 2>>, V2ToneOut |-> Rat(1, 1)]>>
    ELSE <<[Date |-> <<2025, 1, 1>>, V2ToneOut |-> Rat(1, 1)]>>

\* C13: for every combination of the marker columns and the tone column,
\* process_gdelt_data applies the handler of the first marker present in
\* the order seendate, DATE, date, fallback, and no other.
C13_DispatchByPriority ==
    \A opt \in SUBSET OptionalCols :
        (pc = "processed" /\ combined = GdeltInputAfter(MarkedTable(opt))) =>
            processed_gdelt.rows = ByPriority(opt)

C13_Witness ==
    /\ pc = "processed"
    /\ combined = GdeltInputAfter(MarkedTable({"seendate", "DATE", "V2Tone"}))
    /\ processed_gdelt.rows = <<[Date |-> <<2024, 1, 31>>, V2ToneOut |-> Rat(1, 1)]>>

\* ======================================================== chunker claims
\* C14 (as claimed): every range the chunker produced lies within the
\* requested range: start <= range.start <= range.end <= end.
C14_RangesWithinRequest ==
    pc = "fetching" =>
        \A i \in JobIds :
            /\ start_date <= jobs[i].cur
            /\ jobs[i].cur <= jobs[i].next
            /\ jobs[i].next <= end_date

\* C15 (as claimed): with start = end and an empty output folder the
\* chunker yields the one range (start, start).
C15_SingleDegenerateRange ==
    (run = 1 /\ pc = "fetching" /\ start_date = end_date) =>
        /\ Len(jobs) = 1
        /\ jobs[1].cur = start_date
        /\ jobs[1].next = start_date

\* ========================================================= restart claim
\* The destination paths of all chunks of the requested range.
AllChunkPaths ==
    LET every == Chunker(use_api, start_date, end_date, {})
    IN  {JobPath(use_api, every[k]) : k \in DOMAIN every}

\* C16 (as claimed, for the direct fetcher): when a parallel fetch() is
\* interrupted, every job that had returned a batch has its file; and the
\* run that follows on the same range issues jobs for exactly the chunks
\* that had no file at the interruption.
C16_IdempotentRestart ==
    ~use_api =>
        /\ pc = "interrupted" =>
              \A i \in JobIds :
                  (fut[i] \in {"returned", "collected"} /\ outcome[i] # "error")
                      => JobPath(use_api, jobs[i]) \in files
        /\ (pc = "fetching" /\ restart.stage = "resumed") =>
              {JobPath(use_api, jobs[i]) : i \in JobIds} = AllChunkPaths \ restart.files

\* ===================================================== aggregation claim
RECURSIVE Total(_, _)
\* The sum of the V2ToneOut cells of the rows at the positions S.
Total(rows, S) ==
    IF S = {} THEN Rat(0, 1)
    ELSE LET i == CHOOSE x \in S : TRUE
         IN  RatAdd(rows[i].V2ToneOut, Total(rows, S \ {i}))

\* The positions of the rows dated d.
RowsOn(rows, d) == {i \in DOMAIN rows : rows[i].Date = d}

ColumnNamed(df, name) == CHOOSE j \in DOMAIN df.columns : df.columns[j] = name

HasColumn(df, name) == \E j \in DOMAIN df.columns : df.columns[j] = name

\* C18 (as claimed): from a price batch with a 'Close' and an 'Adj Close'
\* column, in either order, process_stock_data takes each row's price from
\* the 'Adj Close' column.
C18_PrefersAdjustedClose ==
    (/\ pc = "stock_processed"
     /\ HasColumn(stock_data, "Close")
     /\ HasColumn(stock_data, "Adj Close")) =>
        /\ Len(processed_stock.rows) = Len(stock_data.rows)
        /\ \A i \in DOMAIN processed_stock.rows :
              processed_stock.rows[i].AdjClose =
                  stock_data.rows[i][ColumnNamed(stock_data, "Adj Close")].num

\* C19 (as claimed): a price batch in the malformed multi-row-header shape
\* normalises to the rows that the batch with the same data rows in a clean
\* Date / Adj Close schema normalises to.
C19_MalformedEqualsClean ==
    \A t \in CleanTables :
        (pc = "stock_processed" /\ stock_data = Malformed(t)) =>
            processed_stock.rows = ProcessStockData(t).rows

\* ======================================================= analyzer claim
\* C20 (as claimed): on a table of no row or of one row analyze_correlation
\* and perform_regression both return the empty dict, so that analyze()
\* has no part to store.
C20_NoStatisticsBelowTwoRows ==
    (pc = "analyzed" /\ Len(final_data.rows) <= 1) =>
        /\ AnalyzeCorrelation(final_data) = {}
        /\ PerformRegression(final_data) = {}
        /\ results = {}

\* The lags reported in the correlation part of the results: k for
\* 'stock_lag_k' and -k for 'sentiment_lag_k'.
ReportedLags ==
    UNION {{IF e.key = "stock_lag" THEN e.lag ELSE -e.lag :
               e \in {x \in p.entries : x.key \in {"stock_lag", "sentiment_lag"}}} :
           p \in {q \in results : q.part = "correlation"}}

\* The rows of the analysed table where the series shifted by |k| and the
\* other series both hold a value: the tone is the shifted one for k > 0,
\* the price for k < 0.
Overlap(k) ==
    LET rows == final_data.rows
        n == Len(rows)
    IN  IF k > 0
        THEN {i \in (k + 1) .. n :
                 ~IsNaN(rows[i - k].V2ToneOut) /\ ~IsNaN(rows[i].AdjClose)}
        ELSE {i \in (1 - k) .. n :
                 ~IsNaN(rows[i + k].AdjClose) /\ ~IsNaN(rows[i].V2ToneOut)}

\* C21: the sweep reports lag k exactly when k is in -MaxLags .. MaxLags,
\* k # 0 and the overlap at k has at least 2 points; the table analysed
\* being of n complete rows, these are the lags 1 <= |k| <= min(MaxLags, n - 2).
C21_LagSweepEntries ==
    (pc = "analyzed" /\ ~IsEmpty(final_data)) =>
        /\ ReportedLags =
              {k \in (-MaxLags) .. MaxLags : k # 0 /\ Cardinality(Overlap(k)) >= 2}
        /\ ReportedLags =
              {k \in (-MaxLags) .. MaxLags :
                  /\ 1 <= Abs(k)
                  /\ Abs(k) <= Min(MaxLags, Len(final_data.rows) - 2)}

C21_Witness ==
    /\ pc = "analyzed"
    /\ Len(final_data.rows) - 2 > MaxLags
    /\ ReportedLags = ((-MaxLags) .. MaxLags) \ {0}

C21_WitnessShort ==
    /\ pc = "analyzed"
    /\ Len(final_data.rows) = 3
    /\ ReportedLags = {-1, 1}

\* ====================================================== validation claim
\* C22 (as claimed): a fetched batch that fails the fetcher's validate_data
\* is treated as empty: nothing is normalised from it. (The columns that
\* the normaliser adds to the batch are none that validate_data looks at.)
C22_InvalidBatchTreatedAsEmpty ==
    (pc = "processed" /\ ~ValidateData(use_api, combined)) =>
        IsEmpty(processed_gdelt)

\* ============================================================ main() claims
\* An upstream call has been made by some job of the current fetch().
SomeUpstreamCall == \E i \in DOMAIN calls : calls[i] > 0

\* The configured range: a date that is not YYYY-MM-DD, or start after end.
InvalidRange ==
    \/ Strptime(start_date)[1] # "date"
    \/ Strptime(end_date)[1] # "date"
    \/ start_date > end_date

\* C23: with a date range that does not parse or has start after end, the
\* run never gets past main's validation: no pipeline (and so no fetcher) is
\* constructed, no fetch() is begun and no upstream call is made.
C23_InvalidRangeAbortsBeforeFetch ==
    InvalidRange =>
        /\ pc \in {"main", "exited"}
        /\ run = 0
        /\ jobs = <<>>
        /\ ~SomeUpstreamCall

\* main has exited on a well-formed range whose start is after its end.
C23_Witness ==
    /\ pc = "exited"
    /\ Strptime(start_date)[1] = "date"
    /\ Strptime(end_date)[1] = "date"
    /\ start_date > end_date

\* main has exited on a date that does not parse.
C23_WitnessUnparsable ==
    /\ pc = "exited"
    /\ Strptime(end_date)[1] = "ValueError"

\* C24 (as claimed): when the library of the chosen fetcher could not be
\* imported, GdeltDjtAnalysis(config) is still constructed: the constructor
\* call of main never ends in an exception.
C24_ConstructibleWithoutLibrary ==
    (IF use_api THEN ~GDELTDOC_AVAILABLE ELSE ~gdelt_imported) => pc # "failed"

\* ====================================================== stage-input claims
\* C25 (as claimed): no stage changes the table it is given: across
\* process_gdelt_data the fetched table, across process_stock_data the raw
\* price table, across merge_datasets the two series and across
\* calculate_differences the merged table keep their columns and rows.
C25_StagesLeaveInputsAlone ==
    [][/\ pc = "done" => combined' = combined
       /\ pc = "processed" => stock_data' = stock_data
       /\ pc = "stock_processed" =>
              /\ processed_gdelt' = processed_gdelt
              /\ processed_stock' = processed_stock
       /\ pc = "merged" => merged_data' = merged_data]_vars

\* ========================================================= fallback claim
MarkerColumns == {"seendate", "DATE", "date"}

\* C26: a non-empty batch, of any number of rows, that has none of the
\* marker columns is processed without an exception into exactly one row,
\* dated 2025-01-01 and carrying the neutral value 1.0.
C26_FallbackSingleRow ==
    (/\ pc = "processed"
     /\ ~IsEmpty(combined)
     /\ combined.cols \cap MarkerColumns = {}) =>
        processed_gdelt =
            [cols |-> {"Date", "V2ToneOut"},
             rows |-> <<[Date |-> <<2025, 1, 1>>, V2ToneOut |-> Rat(1, 1)]>>]

\* A batch of three rows with a tone column and no marker has been
\* processed into the single fallback row.
C26_Witness ==
    /\ pc = "processed"
    /\ combined = GdeltInputAfter(MarkedRows({"V2Tone"}, 3))
    /\ Len(processed_gdelt.rows) = 1
    /\ processed_gdelt.rows[1].Date = FallbackDate

\* ========================================================== retry claim
\* C27: within one fetch(), parallel or sequential, no job has its upstream
\* call made twice, and when fetch() returns every job of the chunker has
\* had it made exactly once, the failed ones included.
C27_EachJobFetchedOnce ==
    /\ pc \in {"fetching", "interrupted", "done"} =>
           \A i \in JobIds : calls[i] <= 1
    /\ pc = "done" => \A i \in JobIds : calls[i] = 1

\* A sequential fetch() of two jobs has returned, its first job having
\* failed.
C27_Witness ==
    /\ pc = "done"
    /\ ~parallel_processing
    /\ Len(jobs) >= 2
    /\ outcome[1] = "error"
    /\ \A i \in JobIds : calls[i] = 1

\* The same for a parallel fetch().
C27_WitnessParallel ==
    /\ pc = "done"
    /\ parallel_processing
    /\ Len(jobs) >= 2
    /\ outcome[2] = "error"
    /\ \A i \in JobIds : calls[i] = 1

\* ==================================================== skipped-chunk claim
\* First days of the chunks of the range that the current fetch() skipped.
SkippedStarts ==
    LET every == Chunker(use_api, start_date, end_date, {})
    IN  {every[k].cur : k \in DOMAIN every} \ {jobs[i].cur : i \in JobIds}

\* C28: the table GdeltDirectFetcher.fetch() returns has no row of a chunk
\* it skipped because the chunk's file existed, and it is the empty table
\* when every chunk of the range had its file when the call began.
C28_SkippedChunksContributeNothing ==
    (~use_api /\ pc = "done") =>
        /\ \A i \in DOMAIN combined.rows :
               combined.rows[i].GKGRECORDID[1] \notin SkippedStarts
        /\ persisted_at_start => combined = EmptyFrame

\* A second fetch() on a range of two chunks, both persisted by the first,
\* has returned the empty table.
C28_Witness ==
    /\ ~use_api
    /\ pc = "done"
    /\ run = 2
    /\ persisted_at_start
    /\ Cardinality(SkippedStarts) = 2
    /\ combined = EmptyFrame

\* A second fetch() has skipped one chunk and returned rows of the other.
C28_WitnessPartial ==
    /\ ~use_api
    /\ pc = "done"
    /\ run = 2
    /\ Cardinality(SkippedStarts) = 1
    /\ ~IsEmpty(combined)

FailedStarts == {jobs[i].cur : i \in {j \in JobIds : outcome[j] = "error"}}

\* First days of the jobs a chunker run on the folder as it is would issue.
ScheduledAgain ==
    LET again == Chunker(use_api, start_date, end_date, files)
    IN  {again[k].cur : k \in DOMAIN again}

\* C30: when GdeltDirectFetcher.fetch() has returned, the destination file
\* of each of its jobs exists exactly if the job's search and parsing raised
\* nothing, a job without matching rows included; so a chunker run over the
\* folder as left issues, of these jobs, the failed ones and no other.
C30_FileIffJobSucceeded ==
    (~use_api /\ pc = "done") =>
        /\ \A i \in JobIds :
               JobPath(use_api, jobs[i]) \in files <=> outcome[i] # "error"
        /\ ScheduledAgain \cap {jobs[i].cur : i \in JobIds} = FailedStarts

\* A fetch() of the direct fetcher has returned with one job failed and
\* without file, and one job without matching rows and with its file.
C30_Witness ==
    /\ ~use_api
    /\ pc = "done"
    /\ \E i, j \in JobIds :
          /\ outcome[i] = "error"
          /\ JobPath(use_api, jobs[i]) \notin files
          /\ outcome[j] = "empty"
          /\ IsEmpty(ret[j])
          /\ JobPath(use_api, jobs[j]) \in files


====
